---------------------------- MODULE Spec2Model ----------------------------
(***************************************************************************)
(* A model of libprogbase's event system (src/src/events/events.c):        *)
(* reference-counted handlers, owned events, the queue-and-broadcast       *)
(* dispatch and the frame loop with deferred handler removal.              *)
(*                                                                         *)
(* The program is single-threaded.  The model follows the call stack of    *)
(* EventSystem_loop: pc is the position of the loop, one action per step   *)
(* of it, and a handler callback is one step (the callback's own calls     *)
(* into the event system happen inside it).                                *)
(***************************************************************************)
EXTENDS Integers, Sequences, FiniteSets, TLC

(* ------------------------------ bounds --------------------------------- *)
NumHandlers == 2        \* handler records the application creates
MaxCalls == 3           \* event-system calls made by application code and callbacks
MaxFrames == 2          \* frames of the loop that are explored
MaxPayloads == 1        \* user events created with an owned payload

(* ----------------------------- constants ------------------------------- *)
NULL == 0               \* the null data pointer
FPS == 30
millisPerFrame == 1000 \div FPS   \* "const double millisPerFrame = 1000 / FPS": int division

NullFn == "NULL"        \* a null function pointer
Dtor == "destructor"    \* some non-null DestructorFunction
ElapsedPtr == -1        \* &elapsedMillis, the payload of an update event

Handlers == 1 .. NumHandlers
Payloads == 1 .. MaxPayloads
ProcMillis == {10, 33, 40}   \* what a frame's processing may take on the clock
EventTypes == {"Start", "Update", "Exit", "RemoveHandler", "BreakLoop", "User"}
UBChoices == {"stale", "again", "abort"}

Range(s) == {s[i] : i \in 1 .. Len(s)}

(* --------------------------- the state --------------------------------- *)
VARIABLES
  handlers,      \* g_eventSystem->handlers: the List of registered handlers
  events,        \* g_eventSystem->events: the Queue of pending events
  heap,          \* the EventHandler records: data, destructor, handler, refCount, mem
  pc,            \* where the program is
  isRunning,     \* EventSystem_loop's local flag
  event,         \* EventSystem_loop's local: the event being processed, or NoEvent
  index,         \* the EventHandlerEnumerator's index
  frame,         \* iterations of the while loop begun
  millis,        \* EventSystem_loop's local: the frame's processing time, once measured
  sleepReq,      \* the argument of the frame's sleepMillis call (0: none made)
  \* history variables: what happened, never read by the program
  regNo,         \* parallel to handlers: the ordinal of the addHandler call of each entry
  adds,          \* addHandler calls so far
  ext,           \* references to each handler that code outside the event system holds
  calls,         \* event-system calls made by application code and callbacks
  payloads,      \* event payloads created so far
  eventDtor,     \* per event payload: calls of its destructor
  handlerDtor,   \* per handler: calls of its payload destructor
  handlerFree,   \* per handler: calls of free() on its record
  cur,           \* the callbacks invoked for the event being processed, in order
  seen,          \* per handler and event type: invocations of its callback
  processed,     \* per event type: events taken off the queue by the loop
  rmSeen         \* handlers that a processed remove-handler event took off the list

vars == <<handlers, events, heap, pc, isRunning, event, index, frame, millis,
          sleepReq,
          regNo, adds, ext, calls, payloads, eventDtor, handlerDtor, handlerFree,
          cur, seen, processed, rmSeen>>

NoEvent == [type |-> "none"]
NoHandler == [mem |-> "none", data |-> NULL, destructor |-> NullFn,
              handler |-> "none", refCount |-> 0]

(* ----------------------------- Event ----------------------------------- *)
Event_new(sender, type, data, dest) ==
  [sender |-> sender, type |-> type, data |-> data, destructor |-> dest]

\* Does Event_free call the destructor?
Event_destroys(e) == e.destructor # NullFn /\ e.data # NULL

\* Event_free on a part u of the state: the destructor call is counted.
Event_free(u, e) ==
  IF Event_destroys(e)
    THEN [u EXCEPT !.eventDtor[e.data] = @ + 1]
    ELSE u

(* --------------------------- EventHandler ------------------------------ *)
EventHandler_new(data, dest, handler) ==
  [mem |-> "live", data |-> data, destructor |-> dest, handler |-> handler,
   refCount |-> 1]

\* An EventHandler_new whose assertion never fails.
EventHandler_new_asserts_never(data, dest) == FALSE

\* The assertion of EventHandler_new fails.
EventHandler_new_asserts(data, dest) == data # NULL /\ dest = NullFn

\* A decref that destroys the record one release early.
EventHandler_decref_frees_early(n) == n <= 1

\* The test of EventHandler_decref: "0 == self->_refCount".
EventHandler_decref_frees(n) == 0 = n

\* The destructor and free() of EventHandler_decref.
EventHandler_destroy(u, h) ==
  [u EXCEPT !.handlerDtor[h] =
              IF u.heap[h].destructor # NullFn /\ u.heap[h].data # NULL
                THEN @ + 1 ELSE @,
            !.handlerFree[h] = @ + 1,
            !.heap[h].mem = "freed"]

\* EventHandler_incref.  On a freed record it is a write to freed memory:
\* it goes through (c # "abort") or the program is stopped.
EventHandler_incref(u, h, c) ==
  IF u.heap[h].mem = "live" \/ c # "abort"
    THEN [u EXCEPT !.heap[h].refCount = @ + 1]
    ELSE [u EXCEPT !.aborted = TRUE]

\* EventHandler_decref.  On a freed record the outcome is one of: the stale
\* count is decremented and is not zero ("stale"), the memory reads as a count
\* of one and the record is destroyed again ("again"), the program is stopped
\* ("abort").
EventHandler_decref(u, h, c) ==
  IF u.heap[h].mem = "live"
    THEN LET v == [u EXCEPT !.heap[h].refCount = @ - 1]
         IN  IF EventHandler_decref_frees(v.heap[h].refCount)
               THEN EventHandler_destroy(v, h)
               ELSE v
    ELSE CASE c = "stale" -> [u EXCEPT !.heap[h].refCount = @ - 1]
           [] c = "again" -> EventHandler_destroy(u, h)
           [] OTHER       -> [u EXCEPT !.aborted = TRUE]

(* --------------------------- List and Queue ---------------------------- *)
\* The collections are collaborators of this file (progbase/collections).
IndexOf(list, x) ==
  IF x \in Range(list)
    THEN CHOOSE i \in 1 .. Len(list) :
           list[i] = x /\ \A j \in 1 .. i - 1 : list[j] # x
    ELSE 0

RemoveAt(list, i) ==
  IF i = 0 THEN list
  ELSE SubSeq(list, 1, i - 1) \o SubSeq(list, i + 1, Len(list))

List_add(list, x) == Append(list, x)
List_remove(list, x) == RemoveAt(list, IndexOf(list, x))
Queue_enqueue(queue, x) == Append(queue, x)
Queue_dequeue(queue) == [event |-> Head(queue), rest |-> Tail(queue)]

(* ------------------------- EventSystem calls --------------------------- *)
\* These work on u, the part of the state a call can change:
\* handlers, regNo, adds, events, heap, ext, payloads, the counters, aborted.

\* An emit that puts the event at the head of the queue.
EventSystem_emit_front(u, e) == [u EXCEPT !.events = <<e>> \o @]

EventSystem_emit(u, e) == [u EXCEPT !.events = Queue_enqueue(@, e)]

\* An addHandler that puts the handler at the head of the list.
EventSystem_addHandler_front(u, h) ==
  [u EXCEPT !.handlers = <<h>> \o @,
            !.regNo = <<u.adds + 1>> \o @,
            !.adds = @ + 1]

\* An addHandler that takes a reference of its own.
EventSystem_addHandler_retains(u, h) ==
  [u EXCEPT !.handlers = List_add(@, h),
            !.regNo = Append(@, u.adds + 1),
            !.adds = @ + 1,
            !.heap[h].refCount = @ + 1]

EventSystem_addHandler(u, h) ==
  [u EXCEPT !.handlers = List_add(@, h),
            !.regNo = Append(@, u.adds + 1),
            !.adds = @ + 1]

\* A removeHandler that also takes the handler off the list at once.
EventSystem_removeHandler_now(u, h) ==
  [u EXCEPT !.events = Append(@, Event_new(NULL, "RemoveHandler", h, NullFn)),
            !.handlers = RemoveAt(@, IndexOf(u.handlers, h)),
            !.regNo = RemoveAt(@, IndexOf(u.handlers, h))]

EventSystem_removeHandler(u, h) ==
  EventSystem_emit(u, Event_new(NULL, "RemoveHandler", h, NullFn))

EventSystem_exit(u) ==
  EventSystem_emit(u, Event_new(NULL, "BreakLoop", NULL, NullFn))

\* A handleEvent that never reports EventSystemActionExit.
EventSystem_handleEvent_result_noExit(e) == "EventSystemActionContinue"

\* The result of EventSystem_handleEvent.
EventSystem_handleEvent_result(e) ==
  IF e.type = "BreakLoop" THEN "EventSystemActionExit"
                          ELSE "EventSystemActionContinue"

\* The effect of EventSystem_handleEvent.
EventSystem_handleEvent(u, e, c) ==
  IF e.type # "BreakLoop" /\ e.type = "RemoveHandler" /\ e.data # NULL
    THEN LET i == IndexOf(u.handlers, e.data)
             v == [u EXCEPT !.handlers = List_remove(@, e.data),
                            !.regNo = RemoveAt(@, i)]
         IN  EventHandler_decref(v, e.data, c)
    ELSE u


(* ------------------ calls made by code outside the system -------------- *)
\* A call of application code or of a callback: op names the function, h its
\* argument (a handler, or the data pointer of an emitted event).
Call(op, h) == [op |-> op, h |-> h]

ApplyCall(u, call, c) ==
  CASE call.op = "addHandler" ->
         \* the caller hands its reference over to the system
         [EventSystem_addHandler(u, call.h) EXCEPT !.ext[call.h] = @ - 1]
    [] call.op = "removeHandler" -> EventSystem_removeHandler(u, call.h)
    [] call.op = "exit" -> EventSystem_exit(u)
    [] call.op = "emit" ->
         [EventSystem_emit(u, Event_new(NULL, "User", call.h,
                                        IF call.h = NULL THEN NullFn ELSE Dtor))
            EXCEPT !.payloads = IF call.h = NULL THEN @ ELSE @ + 1]
    [] call.op = "incref" ->
         [EventHandler_incref(u, call.h, c) EXCEPT !.ext[call.h] = @ + 1]
    [] call.op = "decref" ->
         [EventHandler_decref(u, call.h, c) EXCEPT !.ext[call.h] = @ - 1]

RECURSIVE ApplyScript(_, _, _)
ApplyScript(u, script, c) ==
  IF script = <<>> \/ u.aborted THEN u
  ELSE ApplyScript([ApplyCall(u, Head(script), c) EXCEPT !.calls = @ + 1],
                   Tail(script), c)

\* The single calls code outside the system may make in state u: it adds and
\* releases only handlers it holds a reference to, never one that is
\* registered already, and names any handler it ever created in removeHandler.
Calls(u) ==
     {Call("addHandler", h) : h \in {g \in Handlers :
          u.ext[g] > 0 /\ g \notin Range(u.handlers)}}
  \cup {Call("removeHandler", h) : h \in {g \in Handlers : u.heap[g].mem # "none"}}
  \cup {Call("exit", NULL), Call("emit", NULL)}
  \cup {Call("emit", u.payloads + 1) : x \in {y \in {1} : u.payloads < MaxPayloads}}
  \cup {Call("incref", h) : h \in {g \in Handlers : u.ext[g] > 0}}
  \cup {Call("decref", h) : h \in {g \in Handlers : u.ext[g] > 0}}

\* What the callback of handler h may do when it is invoked, by the kind of
\* callback the handler was created with.
Scripts(u, h) ==
  CASE u.heap[h].handler = "quiet" -> {<<>>}
    [] u.heap[h].handler = "selfRemoveExit" ->
         {<<Call("removeHandler", h), Call("exit", NULL)>>}
    [] OTHER ->
         {<<>>}
         \cup {<<k>> : k \in {x \in Calls(u) : u.calls < MaxCalls}}
         \cup {s \in {<<Call("removeHandler", h), Call("exit", NULL)>>} :
                 u.calls + 2 <= MaxCalls}

(* ------------------------------ actions -------------------------------- *)
Cur ==
  [handlers |-> handlers, regNo |-> regNo, adds |-> adds, events |-> events,
   heap |-> heap, ext |-> ext, payloads |-> payloads, calls |-> calls,
   eventDtor |-> eventDtor, handlerDtor |-> handlerDtor,
   handlerFree |-> handlerFree, aborted |-> FALSE]

\* The state after a step that computed u; an aborted program stays where it is.
Commit(u, next) ==
  /\ handlers' = u.handlers /\ regNo' = u.regNo /\ adds' = u.adds
  /\ events' = u.events /\ heap' = u.heap /\ ext' = u.ext
  /\ payloads' = u.payloads /\ calls' = u.calls
  /\ eventDtor' = u.eventDtor /\ handlerDtor' = u.handlerDtor
  /\ handlerFree' = u.handlerFree
  /\ pc' = IF u.aborted THEN "aborted" ELSE next

TypeOK ==
  /\ pc \in {"app", "while", "drain", "broadcast", "pace", "stopped", "cleaned",
            "aborted"}
  /\ isRunning \in BOOLEAN
  /\ index \in 0 .. NumHandlers
  /\ frame \in 0 .. MaxFrames
  /\ Len(regNo) = Len(handlers)
  /\ Range(handlers) \subseteq Handlers

Init ==
  /\ handlers = <<>> /\ events = <<>>          \* EventSystem_init
  /\ heap = [h \in Handlers |-> NoHandler]
  /\ pc = "app" /\ isRunning = FALSE /\ event = NoEvent /\ index = 0
  /\ frame = 0 /\ millis = 0 /\ sleepReq = 0
  /\ regNo = <<>> /\ adds = 0 /\ ext = [h \in Handlers |-> 0]
  /\ calls = 0 /\ payloads = 0
  /\ eventDtor = [p \in Payloads |-> 0]
  /\ handlerDtor = [h \in Handlers |-> 0]
  /\ handlerFree = [h \in Handlers |-> 0]
  /\ cur = <<>> /\ seen = [h \in Handlers |-> [t \in EventTypes |-> 0]]
  /\ processed = [t \in EventTypes |-> 0] /\ rmSeen = {}

\* Application code creates the next handler record (EventHandler_new); it
\* creates its handlers before it makes any other call.
Create(kinds) ==
  /\ pc = "app" /\ calls = 0
  /\ \E h \in Handlers, withData \in BOOLEAN, dest \in {NullFn, Dtor}, k \in kinds :
       LET data == IF withData THEN h ELSE NULL IN
       /\ heap[h].mem = "none"
       /\ \A g \in Handlers : g < h => heap[g].mem # "none"
       /\ withData \/ dest = NullFn
       /\ IF EventHandler_new_asserts(data, dest)
            THEN Commit([Cur EXCEPT !.aborted = TRUE], pc)
            ELSE Commit([Cur EXCEPT !.heap[h] = EventHandler_new(data, dest, k),
                                    !.ext[h] = 1], pc)
  /\ UNCHANGED <<isRunning, event, index, frame, millis, sleepReq, cur, seen, processed, rmSeen>>

\* Application code, before the loop or after it returned, makes one call.
AppCall ==
  /\ pc \in {"app", "stopped"}
  /\ calls < MaxCalls
  /\ \E k \in Calls(Cur), c \in UBChoices : Commit(ApplyScript(Cur, <<k>>, c), pc)
  /\ UNCHANGED <<isRunning, event, index, frame, millis, sleepReq, cur, seen, processed, rmSeen>>

\* EventSystem_loop up to the while: the start event is enqueued.
LoopStart ==
  /\ pc = "app"
  /\ Commit(EventSystem_emit(Cur, Event_new(NULL, "Start", NULL, NullFn)), "while")
  /\ isRunning' = TRUE
  /\ UNCHANGED <<event, index, frame, millis, sleepReq, cur, seen, processed, rmSeen>>

\* A while loop that begins a frame whatever the flag says.
FrameStart_unguarded ==
  /\ pc = "while" /\ frame < MaxFrames
  /\ Commit(EventSystem_emit(Cur, Event_new(NULL, "Update", ElapsedPtr, NullFn)),
            "drain")
  /\ frame' = frame + 1
  /\ UNCHANGED <<isRunning, event, index, millis, sleepReq, cur, seen, processed, rmSeen>>

\* The while condition holds: a frame begins, the update event is enqueued.
FrameStart ==
  /\ pc = "while" /\ isRunning /\ frame < MaxFrames
  /\ Commit(EventSystem_emit(Cur, Event_new(NULL, "Update", ElapsedPtr, NullFn)),
            "drain")
  /\ frame' = frame + 1
  /\ UNCHANGED <<isRunning, event, index, millis, sleepReq, cur, seen, processed, rmSeen>>

\* The while condition fails: EventSystem_loop returns.
LoopReturn ==
  /\ pc = "while" /\ ~isRunning
  /\ pc' = "stopped"
  /\ UNCHANGED <<handlers, events, heap, isRunning, event, index, frame, millis,
                 sleepReq, regNo, adds, ext, calls, payloads, eventDtor, handlerDtor,
                 handlerFree, cur, seen, processed, rmSeen>>

\* A drain loop that enqueues no exit event.
LoopOnExit_none(u) == u

\* What the drain loop does with the queue on EventSystemActionExit.
LoopOnExit(u) == EventSystem_emit(u, Event_new(NULL, "Exit", NULL, NullFn))

\* A getNextEvent that takes the event enqueued last.
EventSystem_getNextEvent_newest(queue) ==
  [event |-> queue[Len(queue)], rest |-> SubSeq(queue, 1, Len(queue) - 1)]

\* EventSystem_getNextEvent on a queue that is not empty: the event it
\* returns and the queue it leaves.
EventSystem_getNextEvent(queue) == Queue_dequeue(queue)

\* The drain loop takes the next event and EventSystem_handleEvent handles it.
\* On EventSystemActionExit the flag is cleared, the exit event is enqueued
\* and the event is freed; otherwise the broadcast begins.
NextEvent ==
  /\ pc = "drain" /\ events # <<>>
  /\ \E c \in UBChoices :
       LET next == EventSystem_getNextEvent(events)
           e == next.event
           u == EventSystem_handleEvent([Cur EXCEPT !.events = next.rest], e, c)
           exits == EventSystem_handleEvent_result(e) = "EventSystemActionExit"
       IN  /\ IF exits
                THEN /\ Commit(Event_free(LoopOnExit(u), e), "drain")
                     /\ isRunning' = FALSE
                     /\ event' = NoEvent
                ELSE /\ Commit(u, "broadcast")
                     /\ isRunning' = isRunning
                     /\ event' = e
           /\ index' = 0
           /\ processed' = [processed EXCEPT ![e.type] = @ + 1]
           /\ rmSeen' = IF e.type = "RemoveHandler" /\ e.data \in Range(handlers)
                          THEN rmSeen \cup {e.data} ELSE rmSeen
  /\ UNCHANGED <<frame, millis, sleepReq, cur, seen>>

\* An enumerator whose bound test is off by one.
EventHandlerEnumerator_getNextHandler_short(list, i) ==
  IF i + 1 >= Len(list) THEN NULL ELSE list[i + 1]

\* EventHandlerEnumerator_getNextHandler at index i of the list as it is
\* now: NULL past the end, else the entry (the caller advances the index).
EventHandlerEnumerator_getNextHandler(list, i) ==
  IF i >= Len(list) THEN NULL ELSE list[i + 1]

\* EventHandlerEnumerator_getNextHandler returns a handler and its callback runs.
\* Calling through a freed record is a read of freed memory: the callback
\* still runs or the program is stopped.
Invoke ==
  /\ pc = "broadcast"
  /\ EventHandlerEnumerator_getNextHandler(handlers, index) # NULL
  /\ LET h == EventHandlerEnumerator_getNextHandler(handlers, index) IN
     \E c \in UBChoices :
       IF heap[h].mem # "live" /\ c = "abort"
         THEN /\ Commit([Cur EXCEPT !.aborted = TRUE], pc)
              /\ UNCHANGED <<index, cur, seen>>
         ELSE /\ \E s \in Scripts(Cur, h) : Commit(ApplyScript(Cur, s, c), pc)
              /\ index' = index + 1
              /\ cur' = Append(cur, [h |-> h, reg |-> regNo[index + 1]])
              /\ seen' = [seen EXCEPT ![h][event.type] = @ + 1]
  /\ UNCHANGED <<isRunning, event, frame, millis, sleepReq, processed, rmSeen>>

\* The enumerator is exhausted: the event is freed.
BroadcastEnd ==
  /\ pc = "broadcast"
  /\ EventHandlerEnumerator_getNextHandler(handlers, index) = NULL
  /\ Commit(Event_free(Cur, event), "drain")
  /\ event' = NoEvent /\ cur' = <<>>
  /\ UNCHANGED <<isRunning, index, frame, millis, sleepReq, seen, processed, rmSeen>>

\* The queue is empty: the processing time is measured and, if it is under
\* the frame's budget, sleepMillis is called with the remainder.
Pace ==
  /\ pc = "drain" /\ events = <<>>
  /\ \E m \in ProcMillis :
       /\ millis' = m
       /\ sleepReq' = IF m < millisPerFrame THEN millisPerFrame - m ELSE 0
  /\ pc' = "pace"
  /\ UNCHANGED <<handlers, events, heap, isRunning, event, index, frame,
                 regNo, adds, ext, calls, payloads, eventDtor, handlerDtor,
                 handlerFree, cur, seen, processed, rmSeen>>

\* The sleep, if any, is over: the frame ends and the while condition is next.
FrameEnd ==
  /\ pc = "pace"
  /\ pc' = "while" /\ millis' = 0 /\ sleepReq' = 0
  /\ UNCHANGED <<handlers, events, heap, isRunning, event, index, frame,
                 regNo, adds, ext, calls, payloads, eventDtor, handlerDtor,
                 handlerFree, cur, seen, processed, rmSeen>>

\* A cleanup that leaves the pending events alone.
FreeAll_leak(u, queue) == u

RECURSIVE FreeAll(_, _)
FreeAll(u, queue) ==
  IF queue = <<>> THEN u ELSE FreeAll(Event_free(u, Head(queue)), Tail(queue))

\* A cleanup that releases no handler.
DecrefAll_none(u, list, c) == u

RECURSIVE DecrefAll(_, _, _)
DecrefAll(u, list, c) ==
  IF list = <<>> \/ u.aborted THEN u
  ELSE DecrefAll(EventHandler_decref(u, Head(list), c), Tail(list), c)

\* EventSystem_cleanup: the pending events are freed, every handler of the
\* list is released once, both containers are freed.  A program stopped in a
\* release has freed the queue and not the list.
Cleanup ==
  /\ pc \in {"app", "stopped"}
  /\ \E c \in UBChoices :
       LET u == DecrefAll(FreeAll(Cur, events), handlers, c)
       IN  IF u.aborted
             THEN Commit([u EXCEPT !.events = <<>>], pc)
             ELSE Commit([u EXCEPT !.events = <<>>, !.handlers = <<>>, !.regNo = <<>>],
                         "cleaned")
  /\ UNCHANGED <<isRunning, event, index, frame, millis, sleepReq, cur, seen, processed, rmSeen>>

Next ==
  \/ Create({"any"})
  \/ AppCall
  \/ LoopStart
  \/ FrameStart
  \/ LoopReturn
  \/ NextEvent
  \/ Invoke
  \/ BroadcastEnd
  \/ Pace
  \/ FrameEnd
  \/ Cleanup

Spec == Init /\ [][Next]_vars

\* A step of EventSystem_loop once it has been called.  The program is one
\* thread: a loop that can take its next step takes it.
LoopStep ==
  FrameStart \/ LoopReturn \/ NextEvent \/ Invoke \/ BroadcastEnd \/ Pace \/ FrameEnd

(* ---------------------------- scenarios -------------------------------- *)
\* The state EventSystem_init leaves, as a part u of the state.
Fresh ==
  [handlers |-> <<>>, regNo |-> <<>>, adds |-> 0, events |-> <<>>,
   heap |-> [h \in Handlers |-> NoHandler], ext |-> [h \in Handlers |-> 0],
   payloads |-> 0, calls |-> 0,
   eventDtor |-> [p \in Payloads |-> 0],
   handlerDtor |-> [h \in Handlers |-> 0],
   handlerFree |-> [h \in Handlers |-> 0], aborted |-> FALSE]

\* The orders in which one or more handlers can be registered, each once.
Orders ==
  {s \in UNION {[1 .. n -> Handlers] : n \in 1 .. NumHandlers} :
     \A i, j \in 1 .. Len(s) : i # j => s[i] # s[j]}

\* The application creates the handlers of order, with the callbacks kind
\* names, retains those in retained, and registers each.
RECURSIVE SetUp(_, _, _, _, _)
SetUp(u, order, kind, withData, retained) ==
  IF order = <<>> THEN u
  ELSE LET h == Head(order)
           new == EventHandler_new(IF withData[h] THEN h ELSE NULL,
                                   IF withData[h] THEN Dtor ELSE NullFn, kind[h])
           made == [u EXCEPT !.heap[h] = new, !.ext[h] = 1]
           script == (IF h \in retained THEN <<Call("incref", h)>> ELSE <<>>)
                       \o <<Call("addHandler", h)>>
       IN  SetUp(ApplyScript(made, script, "abort"), Tail(order), kind,
                 withData, retained)

\* The program has set up its handlers, made the calls of script, and is
\* about to call EventSystem_loop.
ScenarioInit(kinds, script) ==
  /\ \E order \in Orders, kind \in [Handlers -> kinds],
        withData \in [Handlers -> BOOLEAN], retained \in SUBSET Handlers :
       /\ retained \subseteq Range(order)
       /\ \A h \in Handlers \ Range(order) : ~withData[h] /\ kind[h] = "quiet"
       /\ LET u == ApplyScript(SetUp(Fresh, order, kind, withData, retained),
                               script, "abort")
          IN  /\ handlers = u.handlers /\ regNo = u.regNo /\ adds = u.adds
              /\ events = u.events /\ heap = u.heap /\ ext = u.ext
              /\ payloads = u.payloads /\ calls = u.calls
              /\ eventDtor = u.eventDtor /\ handlerDtor = u.handlerDtor
              /\ handlerFree = u.handlerFree
  /\ pc = "app" /\ isRunning = FALSE /\ event = NoEvent /\ index = 0
  /\ frame = 0 /\ millis = 0 /\ sleepReq = 0
  /\ cur = <<>> /\ seen = [h \in Handlers |-> [t \in EventTypes |-> 0]]
  /\ processed = [t \in EventTypes |-> 0] /\ rmSeen = {}

\* The program calls EventSystem_loop and then EventSystem_cleanup.
NextRun ==
  \/ LoopStart
  \/ FrameStart
  \/ LoopReturn
  \/ NextEvent
  \/ Invoke
  \/ BroadcastEnd
  \/ Pace
  \/ FrameEnd
  \/ Cleanup

\* Handlers that emit nothing are registered and exit() is called once
\* before the loop.
InitExitFirst == ScenarioInit({"quiet"}, <<Call("exit", NULL)>>)
SpecExitFirst == InitExitFirst /\ [][NextRun]_vars

\* Handlers are registered of which at least one, on every event, removes
\* itself and calls exit(); the others emit nothing.
InitSelfRemove ==
  /\ ScenarioInit({"quiet", "selfRemoveExit"}, <<>>)
  /\ \E h \in Handlers : heap[h].handler = "selfRemoveExit"
SpecSelfRemove == InitSelfRemove /\ [][NextRun]_vars
SpecSelfRemoveFair == InitSelfRemove /\ [][NextRun]_vars /\ WF_vars(LoopStep)

(* ------------------------------ claims --------------------------------- *)
IsPrefix(a, b) == Len(a) <= Len(b) /\ SubSeq(b, 1, Len(a)) = a

\* The loop is about to take a remove-handler event off the queue.
TakesRemove == pc = "drain" /\ events # <<>> /\ Head(events).type = "RemoveHandler"

\* EventSystem_loop has been called and has returned.
Returned == pc = "stopped" \/ (pc = "cleaned" /\ frame > 0)

\* C1: a remove-handler event is never broadcast: no callback is ever invoked
\* with an event of that type.
C1_RemoveHandlerNeverBroadcast ==
  /\ \A h \in Handlers : seen[h]["RemoveHandler"] = 0
  /\ (pc = "broadcast" /\ event.type = "RemoveHandler") => index = 0

\* C2: processing a remove-handler event for a handler that an earlier
\* remove-handler event already took off the list is a no-op: the list, the
\* handler's count and the destructor and free() calls are unchanged.
C2_SecondRemoveIsNoOp ==
  [][(TakesRemove /\ Head(events).data \in rmSeen
                  /\ Head(events).data \notin Range(handlers))
       => /\ handlers' = handlers
          /\ heap'[Head(events).data].refCount = heap[Head(events).data].refCount
          /\ handlerDtor' = handlerDtor
          /\ handlerFree' = handlerFree
          /\ pc' # "aborted"]_vars

\* C3: the callbacks invoked for one event run in registration order: of two
\* invocations for the same event the earlier is of the handler whose
\* addHandler call came first, the list is in the order of the addHandler
\* calls, and a broadcast has visited exactly the first index entries of it.
C3_RegistrationOrder ==
  /\ \A i, j \in 1 .. Len(cur) : i < j => cur[i].reg < cur[j].reg
  /\ \A i \in 1 .. Len(regNo) - 1 : regNo[i] < regNo[i + 1]
  /\ pc = "broadcast" =>
       /\ Len(cur) = index
       /\ \A k \in 1 .. index : cur[k].reg = regNo[k] /\ cur[k].h = handlers[k]
  /\ pc \notin {"broadcast", "aborted"} => cur = <<>>

\* Two handlers have been invoked for the event being processed.
C3_Witness ==
  \E i, j \in 1 .. Len(cur) : i < j /\ cur[i].h # cur[j].h

\* C4: removal is deferred.  A step in which removeHandler is called leaves
\* the list as it is; the list loses an entry only in the step that handles a
\* dequeued remove-handler event (or in cleanup), so never between the steps
\* of a broadcast; and after that step the handler the event carries is not
\* in the list.
C4_DeferredRemoval ==
  [][/\ (\E h \in Handlers :
           LET rm == Event_new(NULL, "RemoveHandler", h, NullFn) IN
           \/ events' = Append(events, rm)
           \/ events' = events \o <<rm, Event_new(NULL, "BreakLoop", NULL, NullFn)>>)
        => handlers' = handlers
     /\ ~IsPrefix(handlers, handlers') => (TakesRemove \/ pc' = "cleaned")
     /\ (pc = "broadcast" /\ pc' = "broadcast") => IsPrefix(handlers, handlers')
     /\ TakesRemove => Head(events).data \notin Range(handlers')]_vars

\* A remove-handler event is in its broadcast, the handler it carries was
\* invoked for an earlier event and is off the list.
C4_Witness ==
  /\ pc = "broadcast" /\ event.type = "RemoveHandler"
  /\ event.data \notin Range(handlers)
  /\ event.data \in rmSeen
  /\ \E t \in EventTypes : seen[event.data][t] > 0

\* The event that owns payload p is pending or being processed.
InFlight(p) ==
  \/ \E i \in 1 .. Len(events) : events[i].type = "User" /\ events[i].data = p
  \/ event.type = "User" /\ event.data = p

\* C5: the destructor of an emitted event's payload is called exactly once:
\* not while the event is pending or being processed, once when its
\* processing ended or cleanup drained it, and never again; so exactly once
\* when cleanup has completed.
C5_EventDestroyedOnce ==
  \A p \in Payloads :
    /\ eventDtor[p] = IF p <= payloads /\ ~InFlight(p) THEN 1 ELSE 0
    /\ (pc = "cleaned" /\ p <= payloads) => eventDtor[p] = 1

\* Cleanup has completed after a run of the loop that broadcast an event with
\* a payload to a handler.
C5_Witness ==
  /\ pc = "cleaned" /\ payloads >= 1 /\ eventDtor[1] = 1
  /\ processed["User"] >= 1
  /\ \E h \in Handlers : seen[h]["User"] >= 1

\* C6: a live handler with a payload has a count of at least 1 and neither
\* its destructor nor free() has been called.  A step changes the count of a
\* live handler by at most one; the step that brings it to 0 calls the
\* destructor once and free() once, and any other step calls neither.
C6_ReleaseDestroysAtZero ==
  [][\A h \in Handlers :
       (heap[h].mem = "live" /\ heap[h].data # NULL) =>
         /\ heap[h].refCount >= 1
         /\ handlerDtor[h] = 0 /\ handlerFree[h] = 0
         /\ heap'[h].refCount \in {heap[h].refCount - 1, heap[h].refCount,
                                   heap[h].refCount + 1}
         /\ IF heap'[h].refCount = 0
              THEN /\ heap[h].refCount = 1
                   /\ heap'[h].mem = "freed"
                   /\ handlerDtor'[h] = 1 /\ handlerFree'[h] = 1
              ELSE /\ heap'[h].mem = "live"
                   /\ handlerDtor'[h] = 0 /\ handlerFree'[h] = 0]_vars

\* Handler 1, the only one created, has a payload, was retained once and
\* released twice by the application, and is destroyed.
C6_Witness ==
  /\ pc = "app" /\ adds = 0 /\ events = <<>> /\ calls = 3
  /\ heap[1].mem = "freed" /\ heap[1].data # NULL /\ heap[1].refCount = 0
  /\ \A h \in Handlers : h # 1 => heap[h].mem = "none"
  /\ handlerDtor[1] = 1 /\ handlerFree[1] = 1

\* What holds of the lifecycle events of every run of the loop: the start
\* event is processed once, in the first frame; one update event is processed
\* in each frame; an exit event is processed only in the frame in which a
\* break-loop event cleared the flag, which is the last.
LifecycleEvents ==
  /\ processed["Start"] =
       IF frame = 0 \/ \E i \in 1 .. Len(events) : events[i].type = "Start"
         THEN 0 ELSE 1
  /\ processed["Update"] \in {frame - 1, frame}
  /\ pc \in {"pace", "while", "stopped", "cleaned"} => processed["Update"] = frame
  /\ processed["Exit"] > 0 => ~isRunning
  /\ processed["Exit"] <= processed["BreakLoop"]

\* C7 as stated: a run of the loop that exit() ended has processed one start
\* event, one update event in each frame and one exit event, in the last frame.
C7_OneExitEvent ==
  /\ LifecycleEvents
  /\ pc = "stopped" => processed["Exit"] = 1

\* C7 as amended: one start event, one update event in each frame, and one
\* exit event for each break-loop event processed, at least one, all exit
\* events in the last frame.
C7_ExitPerBreakLoop ==
  /\ LifecycleEvents
  /\ pc = "stopped" =>
       /\ processed["Start"] = 1
       /\ processed["Update"] = frame
       /\ processed["Exit"] = processed["BreakLoop"]
       /\ processed["Exit"] >= 1

\* The loop has returned from its second frame after two break-loop events.
C7_Witness ==
  /\ pc = "stopped" /\ frame = 2
  /\ processed["BreakLoop"] = 2

\* Handler h has been invoked once with each of the events of types and with
\* no other event.
SeenExactly(h, types) ==
  \A t \in EventTypes : seen[h][t] = IF t \in types THEN 1 ELSE 0

\* C8: with exit() called once before the loop, on an otherwise empty queue,
\* and handlers that emit nothing, the loop runs one frame and every handler
\* observes Start, then Update, then Exit, once each and nothing else, before
\* the loop returns.
C8_ExitBeforeLoop ==
  /\ frame <= 1
  /\ pc # "aborted"
  /\ \A h \in Handlers : heap[h].mem # "none" =>
       /\ \/ SeenExactly(h, {})
          \/ SeenExactly(h, {"Start"})
          \/ SeenExactly(h, {"Start", "Update"})
          \/ SeenExactly(h, {"Start", "Update", "Exit"})
       /\ Returned => SeenExactly(h, {"Start", "Update", "Exit"})
  /\ Returned => frame = 1

\* The loop has returned and two handlers were invoked.
C8_Witness ==
  /\ pc = "stopped"
  /\ \A h \in 1 .. 2 : seen[h]["Exit"] = 1

\* The callback of a handler that removes itself and calls exit() is being
\* invoked.
InvokesSelfRemover ==
  /\ pc = "broadcast" /\ index < Len(handlers)
  /\ heap[handlers[index + 1]].handler = "selfRemoveExit"

\* C9: a handler that removes itself and calls exit() on every event receives
\* the events of the first frame, none in a later frame, and the loop returns
\* within one more frame: it is not stopped before it returns.
C9_SelfRemoveThenExit ==
  /\ frame <= 2
  /\ pc # "aborted"
  /\ InvokesSelfRemover => frame = 1
  /\ \A h \in Handlers : (heap[h].handler = "selfRemoveExit" /\ Returned) =>
       seen[h]["Start"] = 1

\* C10: a break-loop event is never delivered: no callback is ever invoked
\* with an event of that type and no broadcast is ever begun for one.
C10_BreakLoopNeverDelivered ==
  /\ \A h \in Handlers : seen[h]["BreakLoop"] = 0
  /\ pc = "broadcast" => event.type # "BreakLoop"

\* A break-loop event was processed while a handler was registered, which
\* received the exit event.
C10_Witness ==
  /\ processed["BreakLoop"] >= 1
  /\ \E h \in Handlers : seen[h]["Exit"] >= 1

\* The update events in a queue.
Updates(queue) == {i \in 1 .. Len(queue) : queue[i].type = "Update"}

\* C11: once a break-loop event has been processed, no further frame begins
\* and no further update event is enqueued; the drain pass ends only on an
\* empty queue, with an exit event processed for every break-loop event; the
\* only step from the while condition is the return of the loop, and the
\* queue is empty then.
C11_DrainThenReturn ==
  [][processed["BreakLoop"] >= 1 =>
       /\ frame' = frame
       /\ Cardinality(Updates(events')) <= Cardinality(Updates(events))
       /\ (pc = "drain" /\ pc' = "pace") =>
            /\ events = <<>> /\ event = NoEvent
            /\ processed["Exit"] = processed["BreakLoop"]
       /\ pc = "pace" => pc' = "while" /\ events' = <<>>
       /\ pc = "while" => pc' = "stopped" /\ events' = <<>> /\ ~isRunning]_vars

\* The loop has returned from its first frame, in which it processed a
\* break-loop event, the exit event and an event emitted by outside code.
C11_Witness ==
  /\ pc = "stopped" /\ frame = 1 /\ events = <<>>
  /\ processed["BreakLoop"] >= 1 /\ processed["Exit"] >= 1
  /\ processed["User"] >= 1

\* EventSystem_loop has been called and has not returned.
InLoop == pc \in {"while", "drain", "broadcast", "pace"}

\* A break-loop event is pending.
BreakLoopPending == \E i \in 1 .. Len(events) : events[i].type = "BreakLoop"

\* C12: a step that enqueues a break-loop event, alone or after a
\* remove-handler event, leaves the list and the loop's flag as they are; and
\* a running loop with a break-loop event pending eventually returns (outside
\* code makes at most MaxCalls calls, so only finitely many events are emitted).
C12_ExitStopsLoop ==
  /\ [][(\E h \in Handlers :
           LET brk == Event_new(NULL, "BreakLoop", NULL, NullFn)
               rm == Event_new(NULL, "RemoveHandler", h, NullFn) IN
           \/ events' = Append(events, brk)
           \/ events' = events \o <<rm, brk>>)
        => handlers' = handlers /\ isRunning' = isRunning]_vars
  /\ ((InLoop /\ BreakLoopPending) ~> pc = "stopped")

\* C13: events are processed first in, first out, one at a time.  A step
\* changes the queue only by appending at the tail, or by taking the head
\* off it (cleanup empties it); the head is taken only when no event is being
\* processed, and it is the event processed next; the processing of an event
\* ends only when the enumerator is exhausted; and a callback is invoked only
\* with the event being processed.
C13_StrictFifo ==
  [][/\ \/ IsPrefix(events, events')
        \/ /\ events # <<>> /\ IsPrefix(Tail(events), events')
           /\ pc = "drain" /\ event = NoEvent
        \/ pc \in {"app", "stopped"} /\ events' = <<>>
     /\ event' # event =>
          \/ /\ event = NoEvent /\ pc = "drain" /\ pc' \in {"broadcast", "aborted"}
             /\ events # <<>> /\ event' = Head(events)
          \/ /\ event' = NoEvent /\ pc = "broadcast" /\ index >= Len(handlers)
     /\ seen' # seen =>
          /\ pc = "broadcast" /\ event' = event
          /\ \E h \in Handlers :
               seen' = [seen EXCEPT ![h][event.type] = @ + 1]]_vars

\* An event with a payload is being broadcast, a callback has been invoked
\* with it, and an event emitted after it waits in the queue.
C13_Witness ==
  /\ pc = "broadcast" /\ event.type = "User" /\ event.data # NULL
  /\ index >= 1
  /\ \E i \in 1 .. Len(events) : events[i].type = "User" /\ events[i].data = NULL

\* Handler h is named by a pending remove-handler event.
RemovePending(h) ==
  \E i \in 1 .. Len(events) : events[i].type = "RemoveHandler" /\ events[i].data = h

\* C14: a cleanup that completes leaves no pending event and has called the
\* destructor of every pending payload once.  Of the live handler records,
\* each one in the list has its count reduced by exactly one, whether or not
\* a pending remove-handler event names it: at a count of 1 it is destroyed,
\* its destructor (if it has a payload) and free() called once; at a higher
\* count it stays live and neither is called.  A record not in the list, named
\* by a pending remove-handler event or not, is left as it is.
C14_CleanupReleasesOnce ==
  [][(pc # "cleaned" /\ pc' = "cleaned") =>
       /\ events' = <<>> /\ handlers' = <<>>
       /\ \A p \in Payloads :
            eventDtor'[p] = eventDtor[p] +
              (IF \E i \in 1 .. Len(events) :
                    events[i].type = "User" /\ events[i].data = p THEN 1 ELSE 0)
       /\ \A h \in Handlers : heap[h].mem = "live" =>
            IF h \in Range(handlers)
              THEN /\ heap'[h].refCount = heap[h].refCount - 1
                   /\ IF heap[h].refCount = 1
                        THEN /\ heap'[h].mem = "freed"
                             /\ handlerFree'[h] = handlerFree[h] + 1
                             /\ handlerDtor'[h] = handlerDtor[h] +
                                  (IF heap[h].data # NULL THEN 1 ELSE 0)
                        ELSE /\ heap'[h].mem = "live"
                             /\ handlerFree'[h] = handlerFree[h]
                             /\ handlerDtor'[h] = handlerDtor[h]
              ELSE /\ heap'[h] = heap[h]
                   /\ handlerFree'[h] = handlerFree[h]
                   /\ handlerDtor'[h] = handlerDtor[h]
       /\ \A h \in Handlers : (heap[h].mem = "live" /\ RemovePending(h)) =>
            /\ heap'[h].refCount =
                 heap[h].refCount - (IF h \in Range(handlers) THEN 1 ELSE 0)
            /\ handlerFree'[h] <= 1]_vars

\* Cleanup has completed without a run of the loop: handler 1, registered
\* with a payload and a count of 1, is destroyed, its destructor called once;
\* handler 2, registered and retained by the application, is live with the
\* application's reference only.
C14_Witness ==
  /\ pc = "cleaned" /\ frame = 0
  /\ heap[1].mem = "freed" /\ heap[1].data # NULL
  /\ handlerDtor[1] = 1 /\ handlerFree[1] = 1
  /\ heap[2].mem = "live" /\ heap[2].refCount = 1 /\ ext[2] = 1 /\ adds = 2

\* C15: a step in which the list grows is a call of addHandler: the list
\* after it is the list before it with one handler appended, and the handler
\* records (the counts among them), the pending events and the destructor and
\* free() calls are as they were.
C15_AddHandlerOnlyAppends ==
  [][Len(handlers') > Len(handlers) =>
       /\ \E h \in Handlers : handlers' = Append(handlers, h)
       /\ adds' = adds + 1
       /\ heap' = heap
       /\ events' = events
       /\ eventDtor' = eventDtor
       /\ handlerDtor' = handlerDtor /\ handlerFree' = handlerFree]_vars

\* The application has emitted an event and registered handler 2, then
\* handler 1: both are in the list in that order with a count of 1, and the
\* event is pending.
C15_Witness ==
  /\ pc = "app" /\ calls = 3 /\ adds = 2
  /\ handlers = <<2, 1>> /\ Len(events) = 1
  /\ \A h \in 1 .. 2 : heap[h].mem = "live" /\ heap[h].refCount = 1

\* C16: no handler record has a payload and a null destructor; the step
\* that creates a record leaves it live with a count of exactly 1; and a
\* program stopped before it made any call was stopped in EventHandler_new,
\* which created no record.
C16_CreateContract ==
  [][/\ \A h \in Handlers :
          /\ heap'[h].mem # "none" =>
               ~(heap'[h].data # NULL /\ heap'[h].destructor = NullFn)
          /\ (heap[h].mem = "none" /\ heap'[h].mem # "none") =>
               /\ heap'[h].mem = "live" /\ heap'[h].refCount = 1
               /\ pc' = pc
     /\ (pc = "app" /\ calls = 0 /\ pc' = "aborted") => heap' = heap]_vars

\* Handler 1 was created with a payload and a destructor and has a count of
\* 1; the creation of handler 2 with a payload and no destructor stopped the
\* program and left no record.
C16_Witness ==
  /\ pc = "aborted" /\ calls = 0
  /\ heap[1].mem = "live" /\ heap[1].refCount = 1 /\ heap[1].data # NULL
  /\ heap[2].mem = "none"

\* The distance between a and b.
Dist(a, b) == IF a >= b THEN a - b ELSE b - a

\* C17: a sleep is requested only in the pacing step of a frame, which comes
\* once, after the drain left the queue empty.  With a budget of 1000/FPS ms
\* (33.3...), processing that took less than the budget is followed by a
\* request to sleep for the budget less the processing time, to within the
\* 0.05 ms to which "23.3" is stated, and processing that took the budget or
\* more by no request.  (Compared in units of 1/FPS ms, where the budget is
\* the integer 1000.)
C17_FramePacing ==
  /\ pc # "pace" => sleepReq = 0 /\ millis = 0
  /\ pc = "pace" =>
       /\ events = <<>>
       /\ IF FPS * millis < 1000
            THEN /\ sleepReq > 0
                 /\ 20 * Dist(FPS * sleepReq, 1000 - FPS * millis) <= FPS
            ELSE sleepReq = 0

\* C18: the enumerator walks the list as it is at each step.  A step of a
\* broadcast in which the list grows appends one handler, beyond the
\* enumerator's index; each invocation is of the entry at the index, which
\* then advances by one; and the broadcast ends only when every entry of the
\* list as it then is, the appended ones included, has been invoked with the
\* event, in the order of the list, which is the order of registration.
C18_AppendedHandlerVisited ==
  [][pc = "broadcast" =>
       /\ Len(handlers') > Len(handlers) =>
            /\ \E h \in Handlers : handlers' = Append(handlers, h)
            /\ regNo'[Len(handlers')] > regNo[Len(handlers)]
            /\ index' < Len(handlers')
            /\ pc' = "broadcast"
       /\ index' # index =>
            /\ index' = index + 1 /\ index < Len(handlers)
            /\ cur' = Append(cur, [h |-> handlers[index + 1], reg |-> regNo[index + 1]])
       /\ pc' = "drain" =>
            /\ Len(cur) = Len(handlers)
            /\ \A k \in 1 .. Len(handlers) :
                 cur[k].h = handlers[k] /\ cur[k].reg = regNo[k]
            /\ \A h \in Range(handlers) : seen[h][event.type] >= 1]_vars

\* Handler 1 received the start event alone; handler 2, which did not, was
\* registered from a callback during the broadcast of the update event and
\* has been invoked with that event, after handler 1.
C18_Witness ==
  /\ pc = "broadcast" /\ event.type = "Update" /\ frame = 1
  /\ handlers = <<1, 2>>
  /\ Len(cur) = 2 /\ cur[1].h = 1 /\ cur[2].h = 2
  /\ seen[1]["Start"] = 1 /\ seen[2]["Start"] = 0 /\ seen[2]["Update"] = 1
  /\ processed["RemoveHandler"] = 0

\* C19: every handler in the list is a live record with a count of at least
\* 1, so the record whose callback the loop is about to invoke is live, and
\* so is the record that the remove-handler event the loop is about to
\* process will release.
C19_ListedHandlersAlive ==
  /\ \A h \in Range(handlers) : heap[h].mem = "live" /\ heap[h].refCount >= 1
  /\ (pc = "broadcast" /\ index < Len(handlers)) =>
       heap[handlers[index + 1]].mem = "live"
  /\ (TakesRemove /\ Head(events).data # NULL) =>
       heap[Head(events).data].mem = "live"

=============================================================================
